---- MODULE Spec2Model ----
(***************************************************************************)
(* Model of handleStreamingRequest (src/src/stream-handler.ts): the async  *)
(* task that fetches the upstream event stream, cuts every chunk into      *)
(* lines, transcodes each data line and writes frames to the sink.         *)
(*                                                                         *)
(* Text is a sequence of symbols.  A symbol is one byte/character or a     *)
(* short run of them that the model never needs to look inside:            *)
(*   "dat" "a: "   the two halves of the prefix 'data: '                   *)
(*   "[DO" "NE]"   the two halves of the payload '[DONE]'                  *)
(*   "LF" "CR"     newline, carriage return                                *)
(*   ":ka"         the text of a comment / keep-alive line                 *)
(*   "C3" "A9"     the two bytes of one multi-byte character, "e'" decoded *)
(*   "{" "id" "ch" "dl" "ro" "c0" "cH" "c'" "'" "f0" "fs" "}"              *)
(*                 the pieces of a JSON payload (see JSONparse)            *)
(*                                                                         *)
(* Spec follows one call, from the call itself to the close of its sink;   *)
(* FairSpec is Spec with the task's steps, reads and writes going on;      *)
(* TwoSpec follows two calls whose tasks interleave.                       *)
(***************************************************************************)
EXTENDS Integers, Sequences, FiniteSets, TLC

\* Largest number of upstream lines in a response body, and its largest
\* length in bytes.
MaxLines == 3
MaxBytes == 16

\* ------------------------------------------------------------------------
\* JavaScript values: undefined, null and strings.
UNDEF == [t |-> "undefined", v |-> <<>>]
NULL == [t |-> "null", v |-> <<>>]
Str(s) == [t |-> "string", v |-> s]

\* The element of a set of one element: The({F(x) : x \in {e}}) is F(e) with
\* e worked out once.
The(S) == CHOOSE x \in S : TRUE

\* x || y for the values above: undefined, null and '' are falsy.
Falsy(x) == x.t \in {"undefined", "null"} \/ (x.t = "string" /\ x.v = <<>>)
OrElse(x, y) == IF Falsy(x) THEN y ELSE x

\* `${x}` in a template literal.
Template(x) ==
    IF x.t = "undefined" THEN <<"undefined">>
    ELSE IF x.t = "null" THEN <<"null">>
    ELSE x.v

\* ------------------------------------------------------------------------
\* Text helpers.
Prefix == <<"dat", "a: ">>
DoneText == <<"[DO", "NE]">>
Whitespace == {"CR", "LF", " "}

\* StartsWithPrefix of a loop that takes every line for a data line.
StartsWithAnything(line) == Len(line) >= 0

\* line.startsWith('data: ')
StartsWithPrefix(line) ==
    Len(line) >= Len(Prefix) /\ SubSeq(line, 1, Len(Prefix)) = Prefix

\* line.substring(6), used once the prefix is known to be there
Substring6(line) == SubSeq(line, Len(Prefix) + 1, Len(line))

\* line.trim() !== ''
NonBlank(line) == \E i \in 1..Len(line) : line[i] \notin Whitespace

\* TextDecoder.decode(value, {stream: true}): the bytes held back from the
\* previous call are put in front, complete characters are decoded, and an
\* incomplete multi-byte character at the end is held back for the next call.
RECURSIVE DecodeBytes(_)
DecodeBytes(bytes) ==
    IF bytes = <<>> THEN [text |-> <<>>, held |-> <<>>]
    ELSE IF bytes[1] = "C3" THEN
        IF Len(bytes) = 1 THEN [text |-> <<>>, held |-> <<"C3">>]
        ELSE IF bytes[2] = "A9" THEN
            The({[text |-> <<"e'">> \o r.text, held |-> r.held] :
                     r \in {DecodeBytes(SubSeq(bytes, 3, Len(bytes)))}})
        ELSE
            The({[text |-> <<"FFFD">> \o r.text, held |-> r.held] :
                     r \in {DecodeBytes(Tail(bytes))}})
    ELSE IF bytes[1] = "A9" THEN
        The({[text |-> <<"FFFD">> \o r.text, held |-> r.held] :
                 r \in {DecodeBytes(Tail(bytes))}})
    ELSE
        The({[text |-> <<bytes[1]>> \o r.text, held |-> r.held] :
                 r \in {DecodeBytes(Tail(bytes))}})

Decode(held, value) == DecodeBytes(held \o value)

\* chunk.split('\n'): the pieces between newlines, empty pieces included.
RECURSIVE SplitLF(_, _)
SplitLF(text, cur) ==
    IF text = <<>> THEN <<cur>>
    ELSE IF text[1] = "LF" THEN <<cur>> \o SplitLF(Tail(text), <<>>)
    ELSE SplitLF(Tail(text), Append(cur, text[1]))

RECURSIVE SelectNonBlank(_)
SelectNonBlank(ls) ==
    IF ls = <<>> THEN <<>>
    ELSE IF NonBlank(ls[1].text) THEN <<ls[1]>> \o SelectNonBlank(Tail(ls))
    ELSE SelectNonBlank(Tail(ls))

\* chunk.split('\n').filter(line => line.trim() !== '').  Each piece also
\* carries src, the number of the upstream line its text belongs to: `before`
\* newlines were read in earlier chunks.
ChunkLines(text, before) ==
    SelectNonBlank(The({[i \in 1..Len(pieces) |->
                            [text |-> pieces[i], src |-> before + i]] :
                        pieces \in {SplitLF(text, <<>>)}}))

CountLF(bytes) == Cardinality({i \in 1..Len(bytes) : bytes[i] = "LF"})

\* ------------------------------------------------------------------------
\* JSON.parse(data) on the payload grammar
\*   "{" ["id"] ["ch" ["dl" ["ro"] ["c0" | "cH" | "c'" char* "'"]] ["f0" | "fs"]] "}"
\* where "id" is  "id":"x",  "ch" opens choices[0],  "dl" opens its delta,
\* "ro" is  "role":"assistant",  "c0" is  "content":null,  "cH" is
\* "content":"Hi",  "c'" char* "'" is a content string given character by
\* character,  "f0" is  "finish_reason":null  and  "fs" is
\* "finish_reason":"stop".  Anything else is a SyntaxError.
StrChars == {"e'", "FFFD"}
At(s, i) == IF i >= 1 /\ i <= Len(s) THEN s[i] ELSE "EOF"

\* The parser reads the payload from the left; rest is what is still unread.
ParseStart(s) ==
    [ok |-> At(s, 1) = "{", rest |-> IF s = <<>> THEN <<>> ELSE Tail(s),
     id |-> UNDEF, hasChoice |-> FALSE, hasDelta |-> FALSE, role |-> UNDEF,
     content |-> UNDEF, finish_reason |-> UNDEF]

ParseId(st) ==
    IF At(st.rest, 1) = "id"
    THEN [st EXCEPT !.id = Str(<<"x">>), !.rest = Tail(@)]
    ELSE st

ParseChoice(st) ==
    IF At(st.rest, 1) = "ch"
    THEN [st EXCEPT !.hasChoice = TRUE, !.rest = Tail(@)]
    ELSE st

ParseDelta(st) ==
    IF st.hasChoice /\ At(st.rest, 1) = "dl"
    THEN [st EXCEPT !.hasDelta = TRUE, !.rest = Tail(@)]
    ELSE st

ParseRole(st) ==
    IF st.hasDelta /\ At(st.rest, 1) = "ro"
    THEN [st EXCEPT !.role = Str(<<"assistant">>), !.rest = Tail(@)]
    ELSE st

\* The index in rest of the quote that closes a string opened at rest[1];
\* 0 if there is none.
ClosingQuote(rest) ==
    IF \E j \in 2..Len(rest) : rest[j] = "'"
    THEN CHOOSE j \in 2..Len(rest) :
            rest[j] = "'" /\ \A k \in 2..(j - 1) : rest[k] # "'"
    ELSE 0

ParseString(st, q) ==
    IF q = 0 \/ \E k \in 2..(q - 1) : st.rest[k] \notin StrChars
    THEN [st EXCEPT !.ok = FALSE]
    ELSE [st EXCEPT !.content = Str(SubSeq(st.rest, 2, q - 1)),
                    !.rest = SubSeq(@, q + 1, Len(@))]

ParseContent(st) ==
    IF ~st.hasDelta THEN st
    ELSE IF At(st.rest, 1) = "c0" THEN [st EXCEPT !.content = NULL, !.rest = Tail(@)]
    ELSE IF At(st.rest, 1) = "cH"
         THEN [st EXCEPT !.content = Str(<<"Hi">>), !.rest = Tail(@)]
    ELSE IF At(st.rest, 1) = "c'" THEN ParseString(st, ClosingQuote(st.rest))
    ELSE st

ParseFinish(st) ==
    IF st.hasChoice /\ At(st.rest, 1) = "f0"
    THEN [st EXCEPT !.finish_reason = NULL, !.rest = Tail(@)]
    ELSE IF st.hasChoice /\ At(st.rest, 1) = "fs"
    THEN [st EXCEPT !.finish_reason = Str(<<"stop">>), !.rest = Tail(@)]
    ELSE st

\* ParseEnd of a parser that takes a text cut short for the whole of it.
ParseEndLenient(st) == [st EXCEPT !.ok = (@ /\ st.rest \in {<<"}">>, <<>>})]

\* The text must end with the closing brace, and there.
ParseEnd(st) == [st EXCEPT !.ok = (@ /\ st.rest = <<"}">>)]

JSONparse(s) ==
    The({ParseEnd(s7) : s7 \in {ParseFinish(s6) : s6 \in {ParseContent(s5) :
         s5 \in {ParseRole(s4) : s4 \in {ParseDelta(s3) : s3 \in {ParseChoice(s2) :
         s2 \in {ParseId(s1) : s1 \in {ParseStart(s)}}}}}}}})

\* Transcode without the `|| ''` default.
TranscodeNoDefault(doc) ==
    [threw |-> ~doc.hasChoice \/ ~doc.hasDelta,
     id |-> doc.id,
     role |-> doc.role,
     content |-> doc.content,
     finishReason |-> doc.finish_reason]

\* The formattedChunk object built from parsedData.  Reading choices[0].delta
\* of a payload without choices[0], or .role of a missing delta, throws.
Transcode(doc) ==
    [threw |-> ~doc.hasChoice \/ ~doc.hasDelta,
     id |-> doc.id,
     role |-> doc.role,
     content |-> OrElse(doc.content, Str(<<>>)),
     finishReason |-> doc.finish_reason]

\* JSON.stringify leaves out a property whose value is undefined.
ABSENT == [t |-> "omitted", v |-> <<>>]
Stringified(x) == IF x.t = "undefined" THEN ABSENT ELSE x

\* The three frames the task writes: `data: ${JSON.stringify(...)}\n\n`.
DeltaFrame(c) ==
    [kind |-> "delta", id |-> Stringified(c.id), role |-> Stringified(c.role),
     content |-> Stringified(c.content),
     finishReason |-> Stringified(c.finishReason), message |-> ABSENT]
DoneFrame ==
    [kind |-> "done", id |-> ABSENT, role |-> ABSENT, content |-> ABSENT,
     finishReason |-> ABSENT, message |-> ABSENT]
ErrorFrame(msg) ==
    [kind |-> "error", id |-> ABSENT, role |-> ABSENT, content |-> ABSENT,
     finishReason |-> ABSENT, message |-> Stringified(msg)]

\* ------------------------------------------------------------------------
\* Error messages (error.message of the exception the outer catch receives).
FetchFailed == <<"fetch failed">>
ReadFailed == <<"read failed">>
SinkFailed == <<"sink write failed">>
NotJSON == <<"Unexpected token">>

NullRead == <<"Cannot read properties of null">>

\* Bodies of a non-success upstream response: text that is not JSON, the JSON
\* value null, or a JSON object with its error.message (undefined if it has
\* none), and the text itself.
NoErrorBody == [kind |-> "text", message |-> UNDEF, raw |-> <<>>]
ErrorBodies ==
    { [kind |-> "object", message |-> Str(<<"rate limited">>),
       raw |-> <<"{error:{message:rate limited}}">>],
      [kind |-> "object", message |-> Str(<<>>), raw |-> <<"{error:{message:}}">>],
      [kind |-> "object", message |-> UNDEF, raw |-> <<"{}">>],
      [kind |-> "null", message |-> UNDEF, raw |-> <<"null">>],
      [kind |-> "text", message |-> UNDEF, raw |-> <<"Bad Gateway">>] }

\* StatusErrorMessage passing the upstream message on as it is.
StatusErrorMessageBare(eb) ==
    IF eb.kind = "text" THEN NotJSON
    ELSE IF eb.kind = "null" THEN NullRead
    ELSE OrElse(eb.message, Str(<<"Unknown error">>)).v

\* The message thrown for a non-success response: response.json() throws on a
\* body that is not JSON, error.error throws on null; otherwise
\* `DeepSeek API error: ${error.error?.message || 'Unknown error'}`.
StatusErrorMessage(eb) ==
    IF eb.kind = "text" THEN NotJSON
    ELSE IF eb.kind = "null" THEN NullRead
    ELSE <<"DeepSeek API error: ">> \o OrElse(eb.message, Str(<<"Unknown error">>)).v

\* ------------------------------------------------------------------------
\* One iteration of `for (const line of lines)`.  ok tells whether a write to
\* the sink made in this iteration resolves (TRUE) or rejects (FALSE).
\*   wrote/frame  the write attempted, if any
\*   threw        an exception leaves the loop for the outer catch
\*   parsed       formattedChunk was built from the payload
\*   logged       the inner catch ran (console.error)
Skip == [wrote |-> FALSE, frame |-> DoneFrame, threw |-> FALSE,
         parsed |-> FALSE, logged |-> FALSE]

Logged == [Skip EXCEPT !.logged = TRUE]

\* The sentinel branch: the write is outside the inner try.
SentinelStep(ok) ==
    [wrote |-> TRUE, frame |-> DoneFrame, threw |-> ~ok,
     parsed |-> FALSE, logged |-> FALSE]

\* The write of the delta frame, inside the inner try: a rejection is caught.
ChunkStep(c, ok) ==
    IF c.threw THEN Logged
    ELSE [wrote |-> TRUE, frame |-> DeltaFrame(c), threw |-> FALSE,
          parsed |-> TRUE, logged |-> ~ok]

\* PayloadStep reporting a payload that fails to parse to the caller.
PayloadStepReportsBad(doc, ok) ==
    IF ~doc.ok
    THEN [wrote |-> TRUE, frame |-> ErrorFrame(Str(NotJSON)), threw |-> FALSE,
          parsed |-> FALSE, logged |-> TRUE]
    ELSE The({ChunkStep(c, ok) : c \in {Transcode(doc)}})

\* The inner try: the parsed payload is transcoded and written; any exception
\* is logged and the loop goes on.
PayloadStep(doc, ok) ==
    IF ~doc.ok THEN Logged
    ELSE The({ChunkStep(c, ok) : c \in {Transcode(doc)}})

LineStep(line, ok) ==
    IF ~StartsWithPrefix(line) THEN Skip
    ELSE IF Substring6(line) = DoneText THEN SentinelStep(ok)
    ELSE The({PayloadStep(doc, ok) : doc \in {JSONparse(Substring6(line))}})

\* ------------------------------------------------------------------------
\* Upstream response bodies: up to MaxLines lines, each ended by a newline,
\* of at most MaxBytes bytes together.
Data(payload) == Prefix \o payload
FullLine == Data(<<"{", "id", "ch", "dl", "ro", "cH", "f0", "}">>)
NoContentLine == Data(<<"{", "ch", "dl", "}">>)
NullContentLine == Data(<<"{", "ch", "dl", "c0", "fs", "}">>)
MultiByteLine == Data(<<"{", "ch", "dl", "c'", "C3", "A9", "'", "}">>)
BadJSONLine == Data(<<"{", "id">>)
NoChoicesLine == Data(<<"{", "id", "}">>)
NoDeltaLine == Data(<<"{", "ch", "f0", "}">>)
GluedLine == NoContentLine \o NoContentLine
DoneLine == Data(DoneText)
DoneCRLine == Data(DoneText) \o <<"CR">>
CommentLine == <<":ka">>
BlankLine == <<>>

LineTexts ==
    { FullLine, NoContentLine, NullContentLine, MultiByteLine, BadJSONLine,
      NoChoicesLine, NoDeltaLine, GluedLine, DoneLine, DoneCRLine, CommentLine,
      BlankLine }

RECURSIVE BodiesUpTo(_)
BodiesUpTo(n) ==
    IF n = 0 THEN {<<>>}
    ELSE LET B == BodiesUpTo(n - 1)
         IN  B \cup {b \o l \o <<"LF">> : b \in B, l \in LineTexts}

Bodies == {b \in BodiesUpTo(MaxLines) : Len(b) <= MaxBytes}

\* ------------------------------------------------------------------------
VARIABLES
    pc,          \* position of the task: call, fetch, read, lines, write, catch, finally, done
    apiKey,      \* env.DEEPSEEK_API_KEY: a string, or undefined when the key is absent
    streamOpen,  \* the TransformStream was created and its writer acquired
    authorization, \* the Authorization header of the fetch issued, <<>> before it
    inflight,    \* chunk lines whose writer.write was issued and has not settled yet
    response,    \* outcome of fetch: pending, threw, notok, ok
    errBody,     \* body of a non-success response
    body,        \* bytes of the upstream response body
    pos,         \* number of bytes of body already returned by reader.read()
    held,        \* bytes the TextDecoder holds back between decode calls
    lines,       \* lines of the current chunk not yet iterated over
    lfRead,      \* newlines in the chunks read so far
    sink,        \* writer.write calls so far: frame, whether it resolved, source line
    sinkBroken,  \* the caller has gone away: every write rejects from now on
    closeCalls,  \* number of writer.close() calls
    caught,      \* error.message of the exception the outer catch received
    readerOpen,  \* response.body.getReader() was called
    parsed,      \* number of payloads turned into a formattedChunk
    logged,      \* number of 'Error parsing streaming data' log lines
    ses,         \* two calls in flight at once: the state of each call's task
    decoders     \* two calls in flight at once: bytes held by each TextDecoder

\* What handleStreamingRequest does before its task first waits.
callVars == <<apiKey, streamOpen, authorization>>

\* The state of two calls whose tasks interleave (TwoSpec below).
pairVars == <<ses, decoders>>

\* The state of one call followed on its own (Spec).
oneVars == <<pc, apiKey, streamOpen, authorization, inflight, response, errBody, body, pos,
             held, lines, lfRead, sink, sinkBroken, closeCalls, caught, readerOpen, parsed,
             logged>>

vars == <<oneVars, pairVars>>

\* The calls in flight at once, and the bodies their upstreams send.
Sessions == {1, 2}
PairBodies ==
    { MultiByteLine \o <<"LF">>,
      NoContentLine \o <<"LF">> \o DoneLine \o <<"LF">> }

\* A call's task at its `await fetch`.  alone and ownHeld follow what the
\* task writes when nothing but itself touches its decoder.
NewSession ==
    [pc |-> "fetch", body |-> <<>>, pos |-> 0, lines |-> <<>>, sink |-> <<>>,
     closeCalls |-> 0, caught |-> <<>>, alone |-> <<>>, ownHeld |-> <<>>]

Init ==
    /\ pc = "call"
    /\ apiKey \in {UNDEF, Str(<<"sk-1">>)}
    /\ streamOpen = FALSE
    /\ authorization = <<>>
    /\ inflight = <<>>
    /\ response = "pending"
    /\ errBody = NoErrorBody
    /\ body = <<>>
    /\ pos = 0
    /\ held = <<>>
    /\ lines = <<>>
    /\ lfRead = 0
    /\ sink = <<>>
    /\ sinkBroken = FALSE
    /\ closeCalls = 0
    /\ caught = <<>>
    /\ readerOpen = FALSE
    /\ parsed = 0
    /\ logged = 0
    /\ ses = [s \in Sessions |-> NewSession]
    /\ decoders = [s \in Sessions |-> <<>>]

\* Outcomes a write can have now.
WriteOutcomes == IF sinkBroken THEN {FALSE} ELSE BOOLEAN

\* handleStreamingRequest is called: the key is read, the TransformStream and
\* its writer are created, and the task runs up to its first await, the fetch.
Call ==
    /\ pc = "call"
    /\ streamOpen' = TRUE
    /\ authorization' = <<"Bearer ">> \o Template(apiKey)
    /\ pc' = "fetch"
    /\ UNCHANGED <<apiKey, inflight, response, errBody, body, pos, held, lines, lfRead, sink,
                   sinkBroken, closeCalls, caught, readerOpen, parsed, logged>>
    /\ UNCHANGED pairVars

\* await fetch(...) rejects.
FetchThrows ==
    /\ pc = "fetch"
    /\ response' = "threw"
    /\ caught' = FetchFailed
    /\ pc' = "catch"
    /\ UNCHANGED <<callVars, inflight>>
    /\ UNCHANGED <<errBody, body, pos, held, lines, lfRead, sink, sinkBroken, closeCalls,
                   readerOpen, parsed, logged>>
    /\ UNCHANGED pairVars

\* !response.ok: the error body is read and an Error is thrown.
FetchNotOk ==
    /\ pc = "fetch"
    /\ response' = "notok"
    /\ \E eb \in ErrorBodies :
        /\ errBody' = eb
        /\ caught' = StatusErrorMessage(eb)
    /\ pc' = "catch"
    /\ UNCHANGED <<callVars, inflight>>
    /\ UNCHANGED <<body, pos, held, lines, lfRead, sink, sinkBroken, closeCalls,
                   readerOpen, parsed, logged>>
    /\ UNCHANGED pairVars

\* response.ok: the reader and the decoder are created.  The upstream grants
\* a request only when it carries a key: to 'Bearer undefined' it answers with
\* a non-success status.
FetchOk ==
    /\ pc = "fetch"
    /\ apiKey.t = "string"
    /\ response' = "ok"
    /\ body' \in Bodies
    /\ readerOpen' = TRUE
    /\ pc' = "read"
    /\ UNCHANGED <<callVars, inflight>>
    /\ UNCHANGED <<errBody, pos, held, lines, lfRead, sink, sinkBroken, closeCalls,
                   caught, parsed, logged>>
    /\ UNCHANGED pairVars

\* reader.read() returns the next n bytes; they are decoded and split.
ReadChunk ==
    /\ pc = "read"
    /\ \E n \in 1..(Len(body) - pos) :
        \E d \in {Decode(held, SubSeq(body, pos + 1, pos + n))} :
            /\ pos' = pos + n
            /\ held' = d.held
            /\ lines' = ChunkLines(d.text, lfRead)
            /\ lfRead' = lfRead + CountLF(SubSeq(body, pos + 1, pos + n))
            /\ pc' = IF lines' = <<>> THEN "read" ELSE "lines"
    /\ UNCHANGED <<callVars, inflight>>
    /\ UNCHANGED <<response, errBody, body, sink, sinkBroken, closeCalls, caught, readerOpen,
                   parsed, logged>>
    /\ UNCHANGED pairVars

\* AfterLoop with close() called on the error path only.
AfterLoopNoFinally == "done"

\* Where `break` takes the task: out of the loop and the try, into finally.
AfterLoop == "finally"

\* reader.read() returns done.
ReadDone ==
    /\ pc = "read"
    /\ pos = Len(body)
    /\ pc' = AfterLoop
    /\ UNCHANGED <<callVars, inflight>>
    /\ UNCHANGED <<response, errBody, body, pos, held, lines, lfRead, sink, sinkBroken, closeCalls,
                   caught, readerOpen, parsed, logged>>
    /\ UNCHANGED pairVars

\* reader.read() rejects.
ReadThrows ==
    /\ pc = "read"
    /\ caught' = ReadFailed
    /\ pc' = "catch"
    /\ UNCHANGED <<callVars, inflight>>
    /\ UNCHANGED <<response, errBody, body, pos, held, lines, lfRead, sink, sinkBroken, closeCalls,
                   readerOpen, parsed, logged>>
    /\ UNCHANGED pairVars

\* Where the loop goes from a line: to the next line of the chunk, or to the
\* next reader.read() after the last one.
NextLine(rest) == IF rest = <<>> THEN "read" ELSE "lines"

\* AfterWriteIssued with the write not awaited.
AfterWriteIssuedNoAwait(rest) == NextLine(rest)

\* Where the task is once it has issued a write in the loop: `await
\* writer.write(...)` suspends it until the write settles.
AfterWriteIssued(rest) == "write"

\* The body of the for loop, for the next line of the chunk, up to the write
\* it issues, if any: a line that issues none is dealt with at once.
ProcessLine ==
    /\ pc = "lines"
    /\ \E r \in {LineStep(Head(lines).text, TRUE)} :
        /\ inflight' = IF r.wrote THEN Append(inflight, Head(lines)) ELSE inflight
        /\ parsed' = IF r.parsed THEN parsed + 1 ELSE parsed
        /\ logged' = IF r.logged THEN logged + 1 ELSE logged
        /\ pc' = IF r.wrote THEN AfterWriteIssued(Tail(lines)) ELSE NextLine(Tail(lines))
    /\ lines' = Tail(lines)
    /\ UNCHANGED callVars
    /\ UNCHANGED <<response, errBody, body, pos, held, lfRead, sink, sinkBroken, closeCalls,
                   caught, readerOpen>>
    /\ UNCHANGED pairVars

\* The oldest write issued settles: it resolves or rejects.  The task, if it
\* is waiting for it, goes on: a rejected sentinel write leaves the loop for
\* the outer catch, a rejected delta write is caught and logged.
WriteSettles ==
    /\ inflight # <<>>
    /\ \E ok \in WriteOutcomes : \E r \in {LineStep(Head(inflight).text, ok)} :
        /\ sink' = Append(sink, [frame |-> r.frame, ok |-> ok, src |-> Head(inflight).src])
        /\ sinkBroken' = (sinkBroken \/ ~ok)
        /\ logged' = IF pc = "write" /\ r.logged THEN logged + 1 ELSE logged
        /\ caught' = IF pc = "write" /\ r.threw THEN SinkFailed ELSE caught
        /\ lines' = IF pc = "write" /\ r.threw THEN <<>> ELSE lines
        /\ pc' = IF pc # "write" THEN pc
                 ELSE IF r.threw THEN "catch" ELSE NextLine(lines)
    /\ inflight' = Tail(inflight)
    /\ UNCHANGED callVars
    /\ UNCHANGED <<response, errBody, body, pos, held, lfRead, closeCalls, readerOpen, parsed>>
    /\ UNCHANGED pairVars

\* AfterCatch with close() placed after the catch block instead of in finally.
AfterCatchNoFinally(ok) == IF ok THEN "finally" ELSE "done"

\* Where the task goes after the catch block, whether or not its write resolved.
AfterCatch(ok) == "finally"

\* catch (error): the error frame is written.
Catch ==
    /\ pc = "catch"
    /\ \E ok \in WriteOutcomes :
        /\ sink' = Append(sink, [frame |-> ErrorFrame(Str(caught)), ok |-> ok, src |-> 0])
        /\ sinkBroken' = (sinkBroken \/ ~ok)
        /\ pc' = AfterCatch(ok)
    /\ UNCHANGED <<callVars, inflight>>
    /\ UNCHANGED <<response, errBody, body, pos, held, lines, lfRead, closeCalls, caught, readerOpen,
                   parsed, logged>>
    /\ UNCHANGED pairVars

\* finally: await writer.close().
Finally ==
    /\ pc = "finally"
    /\ closeCalls' = closeCalls + 1
    /\ pc' = "done"
    /\ UNCHANGED <<callVars, inflight>>
    /\ UNCHANGED <<response, errBody, body, pos, held, lines, lfRead, sink, sinkBroken, caught,
                   readerOpen, parsed, logged>>
    /\ UNCHANGED pairVars

Next ==
    \/ Call
    \/ FetchThrows
    \/ FetchNotOk
    \/ FetchOk
    \/ ReadChunk
    \/ ReadDone
    \/ ReadThrows
    \/ ProcessLine
    \/ WriteSettles
    \/ Catch
    \/ Finally

Spec == Init /\ [][Next]_vars

\* The task's own steps run, every read of the upstream body settles (a
\* chunk, the end of the body or an error) and every write to the sink
\* settles.  Nothing is assumed of the fetch.
ReadSettles == ReadChunk \/ ReadDone \/ ReadThrows
TaskStep == Call \/ ProcessLine \/ Catch \/ Finally
FairSpec == Spec /\ WF_vars(TaskStep \/ ReadSettles \/ WriteSettles)

\* ------------------------------------------------------------------------
\* Views of the sink used by the properties below.
Kinds == [i \in 1..Len(sink) |-> sink[i].frame.kind]
FramesWritten == [i \in 1..Len(sink) |-> sink[i].frame]
Terminal(i) == sink[i].frame.kind \in {"done", "error"}
CountKind(k) == Cardinality({i \in 1..Len(sink) : sink[i].frame.kind = k})
Body(ls) == IF Len(ls) = 0 THEN <<>>
            ELSE IF Len(ls) = 1 THEN ls[1] \o <<"LF">>
            ELSE IF Len(ls) = 2 THEN ls[1] \o <<"LF">> \o ls[2] \o <<"LF">>
            ELSE ls[1] \o <<"LF">> \o ls[2] \o <<"LF">> \o ls[3] \o <<"LF">>

\* The frames the for loop writes for the lines of one chunk when every write
\* resolves.
RECURSIVE FramesOfLines(_)
FramesOfLines(ls) ==
    IF ls = <<>> THEN <<>>
    ELSE (IF LineStep(ls[1].text, TRUE).wrote
          THEN <<LineStep(ls[1].text, TRUE).frame>>
          ELSE <<>>) \o FramesOfLines(Tail(ls))

\* The frames written when the whole body arrives as a single chunk.
FramesOfWholeBody(b) == FramesOfLines(ChunkLines(Decode(<<>>, b).text, 0))

\* A session that read its body to the end with no fetch, read or write failure.
CleanRun == pc = "done" /\ response = "ok" /\ caught = <<>> /\ ~sinkBroken

\* C1: however the body is cut into chunks, the frames written are those
\* written when the same bytes arrive as one chunk (so any two cuttings give
\* the same frames).
C1_ChunkingDoesNotMatter == CleanRun => FramesWritten = FramesOfWholeBody(body)

\* C2: once the sink is closed, the frames written are one delta frame per
\* parsed upstream data frame plus exactly one terminal frame (sentinel or
\* error), and the terminal frame is the last one.
C2_OneTerminalFrameLast ==
    pc = "done" =>
        /\ CountKind("delta") = parsed
        /\ CountKind("done") + CountKind("error") = 1
        /\ Len(sink) > 0 /\ Terminal(Len(sink))

\* C3: close of the sink is attempted exactly once per session: never before
\* the task reaches its end, once when it has, never twice.
C3_ClosedExactlyOnce ==
    /\ closeCalls <= 1
    /\ (pc = "done") <=> (closeCalls = 1)

\* C3 witness: the session ended by an exception thrown inside the error
\* handler (its write rejected) and close was still called.
C3_Witness ==
    /\ pc = "done" /\ closeCalls = 1
    /\ Len(sink) > 0 /\ Kinds[Len(sink)] = "error" /\ ~sink[Len(sink)].ok

\* C4: nothing is written after a sentinel or an error frame was written.
C4_NothingAfterTerminal ==
    \A i \in 1..Len(sink) : (Terminal(i) /\ sink[i].ok) => i = Len(sink)

\* A session whose upstream answered with a non-success status, at its end.
StatusErrorRun == pc = "done" /\ response = "notok"

\* What the reader of a status error sees besides the message: one write, an
\* error frame, then close; the body reader was never opened.
OnlyAnErrorFrame ==
    /\ Len(sink) = 1 /\ Kinds[1] = "error"
    /\ closeCalls = 1
    /\ ~readerOpen

\* C5 as stated: on a non-success status the one error frame carries the
\* upstream's own error message unchanged (the raw body text when the body is
\* not JSON), then the sink is closed; no reader, no delta frame, no sentinel.
C5_UpstreamMessageUnchanged ==
    StatusErrorRun =>
        /\ OnlyAnErrorFrame
        /\ sink[1].frame.message =
              Str(IF errBody.kind = "object" THEN errBody.message.v ELSE errBody.raw)

\* C5 amended: on a non-success status exactly one write is attempted, an
\* error frame whose message is 'DeepSeek API error: ' followed by the
\* upstream's error message, or by 'Unknown error' when the body has no
\* non-empty error.message, or the message of the exception thrown while the
\* body is read (a body that is not JSON, or the JSON value null); then the
\* sink is closed; no reader, no delta frame, no sentinel.
C5_StatusErrorFrame ==
    StatusErrorRun =>
        /\ OnlyAnErrorFrame
        /\ sink[1].frame.message =
              Str(IF errBody.kind = "text" THEN NotJSON
                  ELSE IF errBody.kind = "null" THEN NullRead
                  ELSE IF errBody.message.t = "string" /\ errBody.message.v # <<>>
                       THEN <<"DeepSeek API error: ">> \o errBody.message.v
                       ELSE <<"DeepSeek API error: ", "Unknown error">>)

\* C5 witness: the 'rate limited' response ended with its error frame delivered.
C5_Witness ==
    /\ StatusErrorRun
    /\ errBody.message = Str(<<"rate limited">>)
    /\ Len(sink) = 1 /\ sink[1].ok

\* C6: a rejected write of a delta frame or of the sentinel cancels the
\* session: no line is processed into a further write and no error frame
\* write is attempted after it.
C6_WriteFailureCancels ==
    \A i \in 1..Len(sink) :
        (~sink[i].ok /\ Kinds[i] \in {"delta", "done"}) => i = Len(sink)

\* A data line whose payload is not the sentinel and is invalid JSON or lacks
\* choices[0] or its delta.
IsBadDataLine(t) ==
    /\ StartsWithPrefix(t)
    /\ Substring6(t) # DoneText
    /\ \E doc \in {JSONparse(Substring6(t))} :
          ~doc.ok \/ ~doc.hasChoice \/ ~doc.hasDelta

IsGoodDataLine(t) ==
    /\ StartsWithPrefix(t)
    /\ Substring6(t) # DoneText
    /\ ~IsBadDataLine(t)

\* The lines of the upstream body, and whether line j got frame f written.
UpstreamLines == SplitLF(Decode(<<>>, body).text, <<>>)
HasFrame(j, f) == \E i \in 1..Len(sink) : sink[i].src = j /\ sink[i].frame = f

\* C7: an upstream data line whose payload is invalid JSON or lacks
\* choices[0] or delta yields no frame and does not end the session: every
\* valid data line after it gets its delta frame written and a sentinel line
\* after it its sentinel.
C7_BadLineDoesNotPoison ==
    CleanRun =>
        \A k \in 1..Len(UpstreamLines) :
            UpstreamLines[k] \in {BadJSONLine, NoChoicesLine, NoDeltaLine} =>
                /\ ~\E i \in 1..Len(sink) : sink[i].src = k
                /\ \A j \in (k + 1)..Len(UpstreamLines) :
                    /\ IsGoodDataLine(UpstreamLines[j]) =>
                          HasFrame(j, DeltaFrame(Transcode(JSONparse(
                                         Substring6(UpstreamLines[j])))))
                    /\ UpstreamLines[j] = DoneLine => HasFrame(j, DoneFrame)

\* C8: delta frames follow the order of the upstream lines they come from and
\* no upstream line yields two frames.
C8_InOrderAtMostOnce ==
    \A i, j \in 1..Len(sink) :
        (i < j /\ Kinds[i] = "delta" /\ Kinds[j] = "delta") => sink[i].src < sink[j].src

\* C9: at most one error frame is written, and it is the last write: no delta
\* frame (nor anything else) follows it.
C9_ErrorFrameIsLast ==
    \A i \in 1..Len(sink) : Kinds[i] = "error" => i = Len(sink)

\* C9 witness: a session that wrote a delta frame, then failed and wrote its
\* error frame, and ended.
C9_Witness ==
    /\ pc = "done"
    /\ Len(sink) >= 2
    /\ Kinds[1] = "delta" /\ Kinds[Len(sink)] = "error"
    /\ sink[Len(sink)].ok

MappedFrame(doc) ==
    [kind |-> "delta", id |-> Stringified(doc.id), role |-> Stringified(doc.role),
     content |-> IF doc.content.t = "string" THEN doc.content ELSE Str(<<>>),
     finishReason |-> Stringified(doc.finish_reason), message |-> ABSENT]

\* C11: every well-formed upstream data line gets the delta frame the field
\* mapping gives for its payload; in particular the line with id 'x', role
\* 'assistant', content 'Hi' and finish_reason null followed by the sentinel
\* yields that one delta frame and then the sentinel frame.
C11_FieldMapping ==
    CleanRun =>
        /\ \A k \in 1..Len(UpstreamLines) :
              IsGoodDataLine(UpstreamLines[k]) =>
                  HasFrame(k, MappedFrame(JSONparse(Substring6(UpstreamLines[k]))))
        /\ body = Body(<<FullLine, DoneLine>>) =>
              /\ Kinds = <<"delta", "done">>
              /\ sink[1].frame.id = Str(<<"x">>)
              /\ sink[1].frame.role = Str(<<"assistant">>)
              /\ sink[1].frame.content = Str(<<"Hi">>)
              /\ sink[1].frame.finishReason \in {ABSENT, NULL}

\* C12: when the upstream API key is absent from the environment, no upstream
\* fetch is issued and no outgoing stream is opened.
C12_NoFetchWithoutKey ==
    apiKey = UNDEF =>
        /\ authorization = <<>>
        /\ response = "pending"
        /\ ~streamOpen

\* What follows an exception with message msg: exactly one error frame write,
\* the last write, carrying msg; then close.
ErrorFrameThenClose(msg) ==
    /\ CountKind("error") = 1
    /\ Len(sink) > 0 /\ sink[Len(sink)].frame = ErrorFrame(Str(msg))
    /\ closeCalls = 1

\* C13: when the fetch throws, a read of the body fails, or any other
\* exception that is not a failure to parse a frame occurs (a write to the
\* sink that rejects), the session ends with exactly one error frame carrying
\* the exception's message written, and the sink closed after it.
C13_ExceptionGivesErrorFrame ==
    pc = "done" =>
        /\ caught # <<>> => ErrorFrameThenClose(caught)
        /\ (\E i \in 1..Len(sink) : ~sink[i].ok /\ Kinds[i] # "error")
              => ErrorFrameThenClose(SinkFailed)

\* C14: a read of the next upstream chunk is outstanding only when no write
\* to the sink is: every write issued for the lines of a chunk has settled
\* before reader.read() is called again; at most one write is outstanding at
\* any time and the task waits for it, so no two lines are in work at once.
C14_WritesSettleBeforeRead ==
    /\ pc = "read" => inflight = <<>>
    /\ Len(inflight) <= 1
    /\ inflight # <<>> => pc = "write"

\* C14 witness: both lines of a chunk were written and their writes settled,
\* and the next read is outstanding with more of the body to come.
C14_Witness ==
    /\ pc = "read" /\ inflight = <<>>
    /\ body = Body(<<NoContentLine, DoneLine, CommentLine>>)
    /\ pos = Len(Body(<<NoContentLine, DoneLine>>))
    /\ Len(sink) = 2 /\ sink[1].ok /\ sink[2].ok

\* The line reaches JSON.parse: it has the prefix and its payload is not
\* taken for the sentinel.
ToParser(line) == StartsWithPrefix(line) /\ Substring6(line) # DoneText

\* An upstream line that is the sentinel, with or without a carriage return
\* before the newline.
IsSentinelLine(t) == t \in {DoneLine, DoneCRLine}

\* C15: every upstream sentinel line, however it is cut into chunks and with
\* or without a trailing carriage return, is recognised (its sentinel frame
\* is written) and nothing of it is handed to JSON.parse.
C15_SentinelRecognised ==
    /\ \A i \in 1..Len(lines) :
          IsSentinelLine(UpstreamLines[lines[i].src]) => ~ToParser(lines[i].text)
    /\ CleanRun =>
          \A k \in 1..Len(UpstreamLines) :
              IsSentinelLine(UpstreamLines[k]) => HasFrame(k, DoneFrame)

IsDeltaForm(f) ==
    /\ f.kind = "delta"
    /\ f.content.t = "string"
    /\ f.id.t \in {"string", "omitted"}
    /\ f.role.t \in {"string", "omitted"}
    /\ f.finishReason.t \in {"string", "null", "omitted"}
    /\ f.message = ABSENT
IsErrorForm(f) == \E m \in {f.message} : m.t = "string" /\ f = ErrorFrame(m)
IsDoneForm(f) == f = DoneFrame

\* C17: every write to the sink is one complete frame of one of the three
\* forms, and a delta frame written for a well-formed upstream data line is
\* the frame of its whole payload: nothing is written from a part of it.
C17_CompleteFramesOnly ==
    \A i \in 1..Len(sink) :
        /\ IsDeltaForm(sink[i].frame) \/ IsErrorForm(sink[i].frame)
              \/ IsDoneForm(sink[i].frame)
        /\ (Kinds[i] = "delta" /\ IsGoodDataLine(UpstreamLines[sink[i].src])) =>
              sink[i].frame = DeltaFrame(Transcode(JSONparse(
                                  Substring6(UpstreamLines[sink[i].src]))))

\* C17 witness: the data line with content 'Hi' arrived cut in two chunks,
\* its first part was handed to the parser and rejected, and the session
\* ended with the sentinel frame as its only write.
C17_Witness ==
    /\ CleanRun
    /\ body = Body(<<FullLine, DoneLine>>)
    /\ logged = 1
    /\ Kinds = <<"done">>

\* A line that does not begin with 'data: ', read off its first characters.
NotData(t) == Len(t) < 2 \/ t[1] # "dat" \/ t[2] # "a: "

\* C18: a blank line never reaches the loop and a line that does not begin
\* with 'data: ' passes through it with no effect but the move to the next
\* line: no write is issued, nothing is logged or thrown, and the session's
\* state is otherwise as it was; no write ever comes from an upstream blank
\* or comment line.
C18_OtherLinesDiscarded ==
    /\ [](/\ \A i \in 1..Len(lines) : NonBlank(lines[i].text)
          /\ \A i \in 1..Len(sink) :
                sink[i].src = 0 \/ ~NotData(UpstreamLines[sink[i].src]))
    /\ [][ (pc = "lines" /\ NotData(Head(lines).text)) =>
               /\ lines' = Tail(lines)
               /\ pc' = NextLine(Tail(lines))
               /\ UNCHANGED <<inflight, sink, sinkBroken, logged, parsed, caught,
                              closeCalls, pos, held, lfRead, body, response>> ]_vars

\* C18 witness: a comment line and a blank line came first, in the same chunk
\* as the data line after them, and that line's frame and the sentinel were
\* written.
C18_Witness ==
    /\ CleanRun
    /\ UpstreamLines = <<CommentLine, BlankLine, NoContentLine, <<>>>>
    /\ FramesWritten = <<DeltaFrame(Transcode(JSONparse(Substring6(NoContentLine))))>>
    /\ logged = 0

\* ------------------------------------------------------------------------
\* Two calls of handleStreamingRequest in flight at once.  Each call creates
\* its own writer, reader and decoder; every write resolves.

\* SharedDecoder: one TextDecoder created once and used by every call.
SharedDecoder(s) == 1

\* The decoder a call's task uses: the one it created itself.
DecoderOf(s) == s

\* The fetch of call s rejects.
SFetchThrows(s) ==
    /\ ses[s].pc = "fetch"
    /\ ses' = [ses EXCEPT ![s].caught = FetchFailed, ![s].pc = "catch"]
    /\ UNCHANGED decoders

\* The fetch of call s resolves with a body.
SFetchOk(s) ==
    /\ ses[s].pc = "fetch"
    /\ \E b \in PairBodies : ses' = [ses EXCEPT ![s].body = b, ![s].pc = "read"]
    /\ UNCHANGED decoders

\* reader.read() of call s returns the next n bytes.
SReadChunk(s) ==
    /\ ses[s].pc = "read"
    /\ \E n \in 1..(Len(ses[s].body) - ses[s].pos) :
        \E value \in {SubSeq(ses[s].body, ses[s].pos + 1, ses[s].pos + n)} :
        \E d \in {Decode(decoders[DecoderOf(s)], value)} :
        \E own \in {Decode(ses[s].ownHeld, value)} :
        \E ls \in {ChunkLines(d.text, 0)} :
            /\ decoders' = [decoders EXCEPT ![DecoderOf(s)] = d.held]
            /\ ses' = [ses EXCEPT
                         ![s].pos = @ + n,
                         ![s].lines = ls,
                         ![s].pc = NextLine(ls),
                         ![s].ownHeld = own.held,
                         ![s].alone = @ \o FramesOfLines(ChunkLines(own.text, 0))]

\* reader.read() of call s returns done.
SReadDone(s) ==
    /\ ses[s].pc = "read"
    /\ ses[s].pos = Len(ses[s].body)
    /\ ses' = [ses EXCEPT ![s].pc = AfterLoop]
    /\ UNCHANGED decoders

\* reader.read() of call s rejects.
SReadThrows(s) ==
    /\ ses[s].pc = "read"
    /\ ses' = [ses EXCEPT ![s].caught = ReadFailed, ![s].pc = "catch"]
    /\ UNCHANGED decoders

\* The loop body of call s for its next line; the write resolves.
SProcessLine(s) ==
    /\ ses[s].pc = "lines"
    /\ \E r \in {LineStep(Head(ses[s].lines).text, TRUE)} :
        ses' = [ses EXCEPT
                  ![s].sink = IF r.wrote THEN Append(@, r.frame) ELSE @,
                  ![s].lines = Tail(@),
                  ![s].pc = NextLine(Tail(ses[s].lines))]
    /\ UNCHANGED decoders

\* The outer catch of call s writes its error frame.
SCatch(s) ==
    /\ ses[s].pc = "catch"
    /\ ses' = [ses EXCEPT
                 ![s].sink = Append(@, ErrorFrame(Str(ses[s].caught))),
                 ![s].alone = Append(@, ErrorFrame(Str(ses[s].caught))),
                 ![s].pc = AfterCatch(TRUE)]
    /\ UNCHANGED decoders

\* finally of call s: its writer is closed.
SFinally(s) ==
    /\ ses[s].pc = "finally"
    /\ ses' = [ses EXCEPT ![s].closeCalls = @ + 1, ![s].pc = "done"]
    /\ UNCHANGED decoders

TwoNext ==
    /\ UNCHANGED oneVars
    /\ \E s \in Sessions :
        \/ SFetchThrows(s)
        \/ SFetchOk(s)
        \/ SReadChunk(s)
        \/ SReadDone(s)
        \/ SReadThrows(s)
        \/ SProcessLine(s)
        \/ SCatch(s)
        \/ SFinally(s)

TwoSpec == Init /\ [][TwoNext]_vars

\* C19: with the steps of two calls interleaved in any order, each call's
\* writes and its close are those it makes when nothing else touches its
\* decoder, and a step of one call changes nothing of the other.
C19_SessionsIndependent ==
    /\ [](\A s \in Sessions :
            /\ ses[s].sink \o FramesOfLines(ses[s].lines) = ses[s].alone
            /\ ses[s].closeCalls = IF ses[s].pc = "done" THEN 1 ELSE 0
            /\ decoders[s] = ses[s].ownHeld)
    /\ [][\A s, t \in Sessions : (s # t /\ ses'[s] # ses[s]) => ses'[t] = ses[t]]_vars

\* C19 witness: both calls are in the middle of their bodies at once: call 1
\* has written the frame of its first line and waits for its next chunk,
\* call 2 waits for the rest of a multi-byte character.
C19_Witness ==
    /\ ses[1].pc = "read"
    /\ ses[1].body = NoContentLine \o <<"LF">> \o DoneLine \o <<"LF">>
    /\ ses[1].pos = Len(NoContentLine) + 1
    /\ Len(ses[1].sink) = 1
    /\ ses[2].pc = "read" /\ decoders[2] = <<"C3">>

====
